---- MODULE Spec2Model ----
(***************************************************************************)
(* thermal-convert: the conversion driver (src/thermal-convert.py, main),  *)
(* its two format writers, the EXIF copier and the installer (install.py). *)
(*                                                                         *)
(* Three state machines share this module, each with its own variables:   *)
(*   Spec         one run of thermal-convert.py's main                     *)
(*   SpecWriter   the format writers applied to one pixel                  *)
(*   SpecInstall  one run of install.py's main                             *)
(***************************************************************************)
EXTENDS Integers, Sequences, FiniteSets, TLC

(***************************************************************************)
(* Floating point.  A frame pixel is an IEEE-754 binary float; numpy's     *)
(* in-place `+=` and `*=` keep the array's dtype and round to nearest,     *)
(* ties to even, after every operation.  Magnitudes are kept as unsigned   *)
(* fixed-point numbers with three limbs of fraction: a magnitude is a      *)
(* tuple of four limbs, least significant first, each below Base.        *)
(* Every float met here (at most 53 significant bits, between 2^-7 and     *)
(* 2^17) is such a number exactly.                                         *)
(***************************************************************************)
\* a limb holds 24 bits
Base == 2^24

Mantissa(dtype) == IF dtype = "float32" THEN 24 ELSE 53

ZeroN == <<0, 0, 0, 0>>

\* The integer n (0 <= n < Base) as a fixed-point magnitude.
FromInt(n) == <<0, 0, 0, n>>

\* The integer part of a magnitude (truncation toward zero).
IntPart(a) == a[4]

AddN(a, b) ==
    LET s1 == a[1] + b[1]
        s2 == a[2] + b[2] + (s1 \div Base)
        s3 == a[3] + b[3] + (s2 \div Base)
        s4 == a[4] + b[4] + (s3 \div Base)
    IN  <<s1 % Base, s2 % Base, s3 % Base, s4 % Base>>

\* a - b, for a >= b
SubN(a, b) ==
    LET d1 == a[1] - b[1]
        d2 == a[2] - b[2] - (IF d1 < 0 THEN 1 ELSE 0)
        d3 == a[3] - b[3] - (IF d2 < 0 THEN 1 ELSE 0)
        d4 == a[4] - b[4] - (IF d3 < 0 THEN 1 ELSE 0)
    IN  <<d1 % Base, d2 % Base, d3 % Base, d4 % Base>>

LessN(a, b) ==
    \E i \in 1..4 :
        /\ a[i] < b[i]
        /\ \A j \in (i + 1)..4 : a[j] = b[j]

\* a * m, for a small multiplier m (m * Base fits a machine integer)
MulSmall(a, m) ==
    LET p1 == a[1] * m
        p2 == a[2] * m + (p1 \div Base)
        p3 == a[3] * m + (p2 \div Base)
        p4 == a[4] * m + (p3 \div Base)
    IN  <<p1 % Base, p2 % Base, p3 % Base, p4 % Base>>

\* floor(a / d) and whether the division left a remainder, for a small d
DivSmall(a, d) ==
    LET r4 == a[4] % d
        n3 == r4 * Base + a[3]
        r3 == n3 % d
        n2 == r3 * Base + a[2]
        r2 == n2 % d
        n1 == r2 * Base + a[1]
    IN  [quot |-> <<n1 \div d, n2 \div d, n3 \div d, a[4] \div d>>,
         inexact |-> (n1 % d) # 0]

BitLenLimb(x) == CHOOSE k \in 0..24 : x < 2^k /\ (k = 0 \/ 2^(k - 1) <= x)

\* number of significant bits of a (0 for zero)
BitLen(a) ==
    IF a = ZeroN THEN 0
    ELSE LET top == CHOOSE i \in 1..4 :
                        a[i] # 0 /\ \A j \in (i + 1)..4 : a[j] = 0
         IN  (top - 1) * 24 + BitLenLimb(a[top])

\* bit k of a (bit 0 is the least significant)
Bit(a, k) == (a[(k \div 24) + 1] \div 2^(k % 24)) % 2

\* a with its k low bits cleared
ClearLow(a, k) ==
    [i \in 1..4 |->
        IF i - 1 < k \div 24 THEN 0
        ELSE IF i - 1 = k \div 24 THEN a[i] - (a[i] % 2^(k % 24))
        ELSE a[i]]

Pow2N(k) == [i \in 1..4 |-> IF i - 1 = k \div 24 THEN 2^(k % 24) ELSE 0]

\* a rounded to p significant bits, to nearest, ties to even; `inexact` says
\* that a itself is a truncation of the exact value.
RoundSig(a, p, inexact) ==
    LET len == BitLen(a)
        d == len - p
    IN  IF d <= 0 THEN a
        ELSE LET guard == Bit(a, d - 1)
                 sticky == inexact \/ ClearLow(a, d - 1) # a
                 odd == Bit(a, d) = 1
                 kept == ClearLow(a, d)
             IN  IF guard = 1 /\ (sticky \/ odd) THEN AddN(kept, Pow2N(d)) ELSE kept

(***************************************************************************)
(* Signed floats: [neg, mag].  Celsius inputs are given in hundredths of a *)
(* degree (an integer c stands for c/100 degrees).                         *)
(***************************************************************************)
\* The float of the given dtype nearest to c/100.
FloatOfCenti(c, dtype) ==
    LET a == IF c < 0 THEN -c ELSE c
        q == DivSmall(FromInt(a), 100)
    IN  [neg |-> c < 0, mag |-> RoundSig(q.quot, Mantissa(dtype), q.inexact)]

\* x + y rounded to dtype
FAdd(x, y, dtype) ==
    LET exact ==
            IF x.neg = y.neg THEN [neg |-> x.neg, mag |-> AddN(x.mag, y.mag)]
            ELSE IF LessN(x.mag, y.mag) THEN [neg |-> y.neg, mag |-> SubN(y.mag, x.mag)]
            ELSE [neg |-> x.neg /\ x.mag # y.mag, mag |-> SubN(x.mag, y.mag)]
    IN  [neg |-> exact.neg, mag |-> RoundSig(exact.mag, Mantissa(dtype), FALSE)]

\* x * m rounded to dtype, for a small whole multiplier m
FMulSmall(x, m, dtype) ==
    [neg |-> x.neg, mag |-> RoundSig(MulSmall(x.mag, m), Mantissa(dtype), FALSE)]

\* FClip without the clamp
FClipNone(x, lo, hi) == x

\* ndarray.clip(lo, hi) for whole bounds 0 <= lo <= hi
FClip(x, lo, hi) ==
    IF x.neg /\ x.mag # ZeroN THEN [neg |-> FALSE, mag |-> FromInt(lo)]
    ELSE IF LessN(x.mag, FromInt(lo)) THEN [neg |-> FALSE, mag |-> FromInt(lo)]
    ELSE IF LessN(FromInt(hi), x.mag) THEN [neg |-> FALSE, mag |-> FromInt(hi)]
    ELSE x

\* astype(np.uint16): truncation toward zero, then the low 16 bits
AsUint16(x) ==
    LET n == IntPart(x.mag) % 2^16
    IN  IF x.neg THEN (2^16 - n) % 2^16 ELSE n

\* The Python literal 273.15 is a double; an operation on a float32 array
\* takes it as a float32.
Kelvin0(dtype) ==
    LET lit == FloatOfCenti(27315, "float64")
    IN  [neg |-> FALSE, mag |-> RoundSig(lit.mag, Mantissa(dtype), FALSE)]

\* U16Centikelvin with the offset 273 for 273.15
U16CentikelvinWholeKelvin(c, dtype) ==
    LET data == FloatOfCenti(c, dtype)
        kelvin == FAdd(data, [neg |-> FALSE, mag |-> FromInt(273)], dtype)
        scaled == FMulSmall(kelvin, 100, dtype)
    IN  AsUint16(FClip(scaled, 0, 2^16 - 1))

\* write_u16_centikelvin: the uint16 stored for a pixel of c/100 degrees Celsius
U16Centikelvin(c, dtype) ==
    LET data == FloatOfCenti(c, dtype)
        kelvin == FAdd(data, Kelvin0(dtype), dtype)
        scaled == FMulSmall(kelvin, 100, dtype)
    IN  AsUint16(FClip(scaled, 0, 2^16 - 1))

\* A raster pixel as written to disk: its sample type and its value.
Raster(dtype, x) == [dtype |-> dtype, neg |-> x.neg, mag |-> x.mag]

\* write_u16_centikelvin: the pixel stored for a frame pixel of c/100 degrees
write_u16_centikelvin(c, dtype) ==
    Raster("uint16", [neg |-> FALSE, mag |-> FromInt(U16Centikelvin(c, dtype))])

\* write_f32_celsius: astype(np.float32), no clamping
write_f32_celsius(c, dtype) ==
    LET data == FloatOfCenti(c, dtype)
    IN  Raster("float32", [neg |-> data.neg, mag |-> RoundSig(data.mag, Mantissa("float32"), FALSE)])

\* IMAGE_WRITERS: the dispatch table from the --format choice to a writer
IMAGE_WRITERS(format, c, dtype) ==
    IF format = "celsius" THEN write_f32_celsius(c, dtype)
    ELSE write_u16_centikelvin(c, dtype)

Formats == {"celsius", "centikelvin"}

DTypes == {"float32", "float64"}

(***************************************************************************)
(* File names are sequences of characters; pathlib's suffix rules.         *)
(***************************************************************************)
TiffSuffix == <<".", "t", "i", "f", "f">>

\* PurePath.suffix: from the last dot, unless the name starts or ends with it
Suffix(name) ==
    LET dots == {k \in 1..Len(name) : name[k] = "."}
    IN  IF dots = {} THEN <<>>
        ELSE LET last == CHOOSE k \in dots : \A m \in dots : m <= k
             IN  IF last > 1 /\ last < Len(name) THEN SubSeq(name, last, Len(name))
                 ELSE <<>>

\* file.with_suffix(".tiff").name
WithSuffixName(name) ==
    SubSeq(name, 1, Len(name) - Len(Suffix(name))) \o TiffSuffix

VARIABLES
    pc,           \* position of main in thermal-convert.py
    dir_entries,  \* the input directory's listing, in the platform's order
    args,         \* the parsed arguments: format, copy_exif, type
    frame_dtype,  \* dtype of the array the decoder returns
    in_files,     \* the list in_files
    total,        \* total
    idx,          \* the loop variable i
    image,        \* the frame of the file being processed
    exif,         \* the Exif object's _exif, "None" when there is no object
    stdout,       \* the progress lines printed
    calls,        \* the calls made to the collaborators and to print, in order
    out_fs,       \* the files of the output directory: name -> content
    exit_status,  \* -1 while running, then the process's exit status
    failed_at     \* the step whose exception ended the run, "none" otherwise

cvars == <<pc, dir_entries, args, frame_dtype, in_files,
           total, idx, image, exif, stdout, calls, out_fs, exit_status, failed_at>>

VARIABLES
    px_pc,     \* "frame" before a writer ran, then the writer's name
    px_c,      \* the frame pixel, in hundredths of a degree Celsius
    px_dtype,  \* the frame's dtype
    px_out     \* the raster pixel written

wvars == <<px_pc, px_c, px_dtype, px_out>>

VARIABLES
    inst_pc,             \* position of main in install.py
    platform,            \* sys.platform
    inst_args,           \* the parsed arguments: force_install_exiftool
    venv_dir_exists,     \* venv_dir.exists()
    venv_python_exists,  \* venv_python_bin.exists()
    venv_path_has_space, \* " " in str(venv_python_bin)
    exiftool_on_path,    \* shutil.which("exiftool") finds the tool
    exiftool,            \* the variable exiftool: where it was found, or "None"
    installed,           \* what the installer has put in place so far
    inst_exit,           \* -1 while running, then the process's exit status
    inst_error           \* the setup error that ended the run, "none" otherwise

ivars == <<inst_pc, platform, inst_args, venv_dir_exists, venv_python_exists,
           venv_path_has_space, exiftool_on_path, exiftool, installed, inst_exit,
           inst_error>>

vars == <<cvars, wvars, ivars>>

(***************************************************************************)
(* The format writers on one pixel.                                        *)
(***************************************************************************)
BelowZero == 30000

AboveZero == 40000

NoRaster == [dtype |-> "none", neg |-> FALSE, mag |-> ZeroN]

WriterIdle ==
    /\ px_pc = "idle"
    /\ px_c = 0
    /\ px_dtype = "float32"
    /\ px_out = NoRaster

WriterInit ==
    /\ px_pc = "frame"
    /\ px_c \in (-BelowZero)..AboveZero
    /\ px_dtype \in DTypes
    /\ px_out = NoRaster

WriteCentikelvin ==
    /\ px_pc = "frame"
    /\ px_out' = IMAGE_WRITERS("centikelvin", px_c, px_dtype)
    /\ px_pc' = "centikelvin"
    /\ UNCHANGED <<px_c, px_dtype, cvars, ivars>>

WriteCelsius ==
    /\ px_pc = "frame"
    /\ px_out' = IMAGE_WRITERS("celsius", px_c, px_dtype)
    /\ px_pc' = "celsius"
    /\ UNCHANGED <<px_c, px_dtype, cvars, ivars>>

(***************************************************************************)
(* The conversion driver: main of thermal-convert.py, one action per step. *)
(* A frame is modelled by one of its pixels (the writers act pixel by      *)
(* pixel); the output directory starts empty and is not the input          *)
(* directory.                                                              *)
(***************************************************************************)
PROGRESS_MSG == "Completed Files"

MaxEntries == 3

FileNames ==
    { <<"a", ".", "j", "p", "g">>,
      <<"a", ".", "p", "n", "g">>,
      <<"b">>,
      <<".", "c", ".", "d">> }

\* Celsius values (in hundredths) a decoded frame may hold
PixelSamples == {10000, -30000}

ExifLocations == {"PATH", "bundled"}

NoName == <<>>

NoImage == [src |-> NoName, c |-> 0, dtype |-> "none"]

\* The listings of a directory of at most MaxEntries entries with distinct names
Listings ==
    UNION { { l \in [1..n -> [name : FileNames, is_file : BOOLEAN]] :
                \A p, q \in 1..n : p # q => l[p].name # l[q].name }
            : n \in 0..MaxEntries }

Call(op, file, dest, arg, n) ==
    [op |-> op, file |-> file, dest |-> dest, arg |-> arg, n |-> n]

ProgressLine(current, tot) == [msg |-> PROGRESS_MSG, current |-> current, total |-> tot]

ConvInit ==
    /\ pc = "list"
    /\ dir_entries \in Listings
    /\ args \in [format : Formats, copy_exif : BOOLEAN, type : {"dji", "flir"}]
    /\ frame_dtype \in DTypes
    /\ in_files = <<>>
    /\ total = 0
    /\ idx = 0
    /\ image = NoImage
    /\ exif = "None"
    /\ stdout = <<>>
    /\ calls = <<>>
    /\ out_fs = <<>>
    /\ exit_status = -1
    /\ failed_at = "none"

ConvIdle ==
    /\ pc = "idle"
    /\ dir_entries = <<>>
    /\ args = [format |-> "celsius", copy_exif |-> TRUE, type |-> "dji"]
    /\ frame_dtype = "float32"
    /\ in_files = <<>>
    /\ total = 0
    /\ idx = 0
    /\ image = NoImage
    /\ exif = "None"
    /\ stdout = <<>>
    /\ calls = <<>>
    /\ out_fs = <<>>
    /\ exit_status = -1
    /\ failed_at = "none"

\* An uncaught exception at `step`: the interpreter exits with status 1.
Raise(step) ==
    /\ pc' = "failed"
    /\ exit_status' = 1
    /\ failed_at' = step

\* RegularFiles without the is_file() filter
AllEntries(listing) == [k \in 1..Len(listing) |-> listing[k].name]

\* in_files = [f for f in in_dir.iterdir() if f.is_file()]
RegularFiles(listing) ==
    LET IsFile(e) == e.is_file
        kept == SelectSeq(listing, IsFile)
    IN  [k \in 1..Len(kept) |-> kept[k].name]

ListInput ==
    /\ pc = "list"
    /\ in_files' = RegularFiles(dir_entries)
    /\ pc' = "mkdir"
    /\ UNCHANGED <<dir_entries, args, frame_dtype, total, idx, image, exif, stdout,
                   calls, out_fs, exit_status, failed_at, wvars, ivars>>

\* in_dir.iterdir() raises: the input directory is missing or unreadable
ListInputFails ==
    /\ pc = "list"
    /\ Raise("list")
    /\ UNCHANGED <<dir_entries, args, frame_dtype, in_files, total, idx, image, exif,
                   stdout, calls, out_fs, wvars, ivars>>

\* out_dir.mkdir(exist_ok=True)
MakeOutDir ==
    /\ pc = "mkdir"
    /\ pc' = "exif"
    /\ UNCHANGED <<dir_entries, args, frame_dtype, in_files, total, idx, image, exif,
                   stdout, calls, out_fs, exit_status, failed_at, wvars, ivars>>

\* mkdir raises: the parent is missing or unwritable, or the path is a file
MakeOutDirFails ==
    /\ pc = "mkdir"
    /\ Raise("mkdir")
    /\ UNCHANGED <<dir_entries, args, frame_dtype, in_files, total, idx, image, exif,
                   stdout, calls, out_fs, wvars, ivars>>

\* InitExif building the Exif object whatever args.copy_exif says
InitExifAlways ==
    /\ pc = "exif"
    /\ \E loc \in ExifLocations :
           /\ exif' = loc
           /\ calls' = Append(calls, Call("resolve", NoName, NoName, loc, 0))
    /\ pc' = "start"
    /\ UNCHANGED <<dir_entries, args, frame_dtype, in_files, total, idx, image, stdout,
                   out_fs, exit_status, failed_at, wvars, ivars>>

\* exif = Exif() if args.copy_exif else None; Exif.__init__ resolves the tool
InitExif ==
    /\ pc = "exif"
    /\ IF args.copy_exif
       THEN \E loc \in ExifLocations :
                /\ exif' = loc
                /\ calls' = Append(calls, Call("resolve", NoName, NoName, loc, 0))
       ELSE /\ exif' = "None"
            /\ calls' = calls
    /\ pc' = "start"
    /\ UNCHANGED <<dir_entries, args, frame_dtype, in_files, total, idx, image, stdout,
                   out_fs, exit_status, failed_at, wvars, ivars>>

\* get_exif_binary() raises inside Exif(): the tool cannot be located
InitExifFails ==
    /\ pc = "exif"
    /\ args.copy_exif
    /\ calls' = Append(calls, Call("resolve", NoName, NoName, "None", 0))
    /\ Raise("exif")
    /\ UNCHANGED <<dir_entries, args, frame_dtype, in_files, total, idx, image, exif,
                   stdout, out_fs, wvars, ivars>>

\* total = len(in_files); print(f"{PROGRESS_MSG}: 0/{total}"); the loop begins
PrintStart ==
    /\ pc = "start"
    /\ total' = Len(in_files)
    /\ stdout' = Append(stdout, ProgressLine(0, Len(in_files)))
    /\ calls' = Append(calls, Call("print", NoName, NoName, "stdout", 0))
    /\ idx' = 0
    /\ pc' = IF Len(in_files) = 0 THEN "done" ELSE "decode"
    /\ exit_status' = IF Len(in_files) = 0 THEN 0 ELSE exit_status
    /\ UNCHANGED <<dir_entries, args, frame_dtype, in_files, image, exif, out_fs,
                   failed_at, wvars, ivars>>

\* the loop's `file`
CurrentFile == in_files[idx + 1]

\* image = ThermalImage(image_path=str(file), camera_manufacturer=args.type)
Decode ==
    /\ pc = "decode"
    /\ \E c \in PixelSamples :
           image' = [src |-> CurrentFile, c |-> c, dtype |-> frame_dtype]
    /\ calls' = Append(calls, Call("decode", CurrentFile, NoName, args.type, idx))
    /\ pc' = "write"
    /\ UNCHANGED <<dir_entries, args, frame_dtype, in_files, total, idx, exif, stdout,
                   out_fs, exit_status, failed_at, wvars, ivars>>

\* the decoder raises: not a thermal image, unreadable file
DecodeFails ==
    /\ pc = "decode"
    /\ calls' = Append(calls, Call("decode", CurrentFile, NoName, args.type, idx))
    /\ Raise("decode")
    /\ UNCHANGED <<dir_entries, args, frame_dtype, in_files, total, idx, image, exif,
                   stdout, out_fs, wvars, ivars>>

\* dest = out_dir / file.with_suffix(".tiff").name
Dest == WithSuffixName(CurrentFile)

\* PutFile that leaves an existing file alone
PutFileKeepFirst(fs, name, content) ==
    [n \in DOMAIN fs \cup {name} |-> IF n \in DOMAIN fs THEN fs[n] ELSE content]

\* the directory `fs` with the file `name` created or overwritten
PutFile(fs, name, content) ==
    [n \in DOMAIN fs \cup {name} |-> IF n = name THEN content ELSE fs[n]]

OutFile(src, raster, complete, exif_from) ==
    [src |-> src, raster |-> raster, complete |-> complete, exif_from |-> exif_from]

\* image_writer(dest, image)
Write ==
    /\ pc = "write"
    /\ out_fs' = PutFile(out_fs, Dest,
                         OutFile(CurrentFile,
                                 IMAGE_WRITERS(args.format, image.c, image.dtype),
                                 TRUE, NoName))
    /\ calls' = Append(calls, Call("write", CurrentFile, Dest, args.format, idx))
    /\ pc' = "print"
    /\ UNCHANGED <<dir_entries, args, frame_dtype, in_files, total, idx, image, exif,
                   stdout, exit_status, failed_at, wvars, ivars>>

\* tifffile.imwrite raises, before it opened the destination or after it
\* truncated it (a missing codec, a full disk)
WriteFails ==
    /\ pc = "write"
    /\ \E opened \in BOOLEAN :
           out_fs' = IF opened
                     THEN PutFile(out_fs, Dest, OutFile(CurrentFile, NoRaster, FALSE, NoName))
                     ELSE out_fs
    /\ calls' = Append(calls, Call("write", CurrentFile, Dest, args.format, idx))
    /\ Raise("write")
    /\ UNCHANGED <<dir_entries, args, frame_dtype, in_files, total, idx, image, exif,
                   stdout, wvars, ivars>>

\* the end of one iteration of the loop
NextFile ==
    /\ idx' = idx + 1
    /\ pc' = IF idx + 1 < total THEN "decode" ELSE "done"
    /\ exit_status' = IF idx + 1 < total THEN exit_status ELSE 0

\* PrintProgress printing i for i + 1
PrintProgressOffByOne ==
    /\ pc = "print"
    /\ stdout' = Append(stdout, ProgressLine(idx, total))
    /\ calls' = Append(calls, Call("print", NoName, NoName, "stdout", idx + 1))
    /\ pc' = "copy"
    /\ UNCHANGED <<dir_entries, args, frame_dtype, in_files, total, idx, image, exif,
                   out_fs, exit_status, failed_at, wvars, ivars>>

\* PrintProgress ending the iteration: the metadata copy is left out
PrintProgressSkipsCopy ==
    /\ pc = "print"
    /\ stdout' = Append(stdout, ProgressLine(idx + 1, total))
    /\ calls' = Append(calls, Call("print", NoName, NoName, "stdout", idx + 1))
    /\ NextFile
    /\ UNCHANGED <<dir_entries, args, frame_dtype, in_files, total, image, exif,
                   out_fs, failed_at, wvars, ivars>>

\* print(f"{PROGRESS_MSG}: {i + 1}/{total}")
PrintProgress ==
    /\ pc = "print"
    /\ stdout' = Append(stdout, ProgressLine(idx + 1, total))
    /\ calls' = Append(calls, Call("print", NoName, NoName, "stdout", idx + 1))
    /\ pc' = "copy"
    /\ UNCHANGED <<dir_entries, args, frame_dtype, in_files, total, idx, image, exif,
                   out_fs, exit_status, failed_at, wvars, ivars>>

\* CopyExif looking the tool up again at every call
CopyExifResolveAgain ==
    /\ pc = "copy"
    /\ exif # "None"
    /\ out_fs' = PutFile(out_fs, Dest, [out_fs[Dest] EXCEPT !.exif_from = CurrentFile])
    /\ \E loc \in ExifLocations :
           calls' = Append(calls, Call("copy", CurrentFile, Dest, loc, idx))
    /\ NextFile
    /\ UNCHANGED <<dir_entries, args, frame_dtype, in_files, total, image, exif, stdout,
                   failed_at, wvars, ivars>>

\* if exif is not None: exif.copy_exif(src=file, dest=dest); subprocess.run
\* of the resolved tool, which rewrites dest in place
CopyExif ==
    /\ pc = "copy"
    /\ exif # "None"
    /\ out_fs' = PutFile(out_fs, Dest, [out_fs[Dest] EXCEPT !.exif_from = CurrentFile])
    /\ calls' = Append(calls, Call("copy", CurrentFile, Dest, exif, idx))
    /\ NextFile
    /\ UNCHANGED <<dir_entries, args, frame_dtype, in_files, total, image, exif, stdout,
                   failed_at, wvars, ivars>>

\* CopyExifFails catching the error and going on with the next file
CopyExifFailsContinue ==
    /\ pc = "copy"
    /\ exif # "None"
    /\ calls' = Append(calls, Call("copy", CurrentFile, Dest, exif, idx))
    /\ failed_at' = "copy"
    /\ NextFile
    /\ UNCHANGED <<dir_entries, args, frame_dtype, in_files, total, image, exif,
                   stdout, out_fs, wvars, ivars>>

\* the tool exits non-zero (check=True raises CalledProcessError) or cannot run
CopyExifFails ==
    /\ pc = "copy"
    /\ exif # "None"
    /\ calls' = Append(calls, Call("copy", CurrentFile, Dest, exif, idx))
    /\ Raise("copy")
    /\ UNCHANGED <<dir_entries, args, frame_dtype, in_files, total, idx, image, exif,
                   stdout, out_fs, wvars, ivars>>

\* exif is None: nothing to copy
SkipCopy ==
    /\ pc = "copy"
    /\ exif = "None"
    /\ NextFile
    /\ UNCHANGED <<dir_entries, args, frame_dtype, in_files, total, image, exif, stdout,
                   calls, out_fs, failed_at, wvars, ivars>>


(***************************************************************************)
(* The installer: main of install.py, one action per step and outcome.     *)
(***************************************************************************)
Platforms == {"win32", "linux", "darwin"}

InstallIdle ==
    /\ inst_pc = "idle"
    /\ platform = "linux"
    /\ inst_args = [force_install_exiftool |-> FALSE]
    /\ venv_dir_exists = FALSE
    /\ venv_python_exists = FALSE
    /\ venv_path_has_space = FALSE
    /\ exiftool_on_path = FALSE
    /\ exiftool = "None"
    /\ installed = {}
    /\ inst_exit = -1
    /\ inst_error = "none"

\* sys.exit(status) after a setup error was reported
InstExit(status, error) ==
    /\ inst_pc' = "exited"
    /\ inst_exit' = status
    /\ inst_error' = error

\* an uncaught exception: the interpreter exits with status 1
InstRaise(error) == InstExit(1, error)

\* venv_dir exists and holds its python: creation is skipped
VenvFound ==
    /\ inst_pc = "venv"
    /\ venv_dir_exists
    /\ venv_python_exists
    /\ inst_pc' = "which"
    /\ UNCHANGED <<platform, inst_args, venv_dir_exists, venv_python_exists,
                   venv_path_has_space, exiftool_on_path, exiftool, installed,
                   inst_exit, inst_error, cvars, wvars>>

\* venv_dir exists but venv_python_bin does not: sys.exit(1)
VenvBroken ==
    /\ inst_pc = "venv"
    /\ venv_dir_exists
    /\ ~venv_python_exists
    /\ InstExit(1, "venv_python_missing")
    /\ UNCHANGED <<platform, inst_args, venv_dir_exists, venv_python_exists,
                   venv_path_has_space, exiftool_on_path, exiftool, installed,
                   cvars, wvars>>

\* venv.create(...) and venv_python_bin is there
VenvCreate ==
    /\ inst_pc = "venv"
    /\ ~venv_dir_exists
    /\ venv_dir_exists' = TRUE
    /\ venv_python_exists' = TRUE
    /\ installed' = installed \cup {"venv"}
    /\ inst_pc' = "which"
    /\ UNCHANGED <<platform, inst_args, venv_path_has_space, exiftool_on_path,
                   exiftool, inst_exit, inst_error, cvars, wvars>>

\* venv.create(...) returned but venv_python_bin is not there: sys.exit(0)
VenvCreateNoPython ==
    /\ inst_pc = "venv"
    /\ ~venv_dir_exists
    /\ venv_dir_exists' = TRUE
    /\ InstExit(0, "venv_python_missing")
    /\ UNCHANGED <<platform, inst_args, venv_python_exists, venv_path_has_space,
                   exiftool_on_path, exiftool, installed, cvars, wvars>>

\* venv.create(...) raises
VenvCreateFails ==
    /\ inst_pc = "venv"
    /\ ~venv_dir_exists
    /\ InstRaise("venv_create_failed")
    /\ UNCHANGED <<platform, inst_args, venv_dir_exists, venv_python_exists,
                   venv_path_has_space, exiftool_on_path, exiftool, installed,
                   cvars, wvars>>

\* exiftool = None; if not args.force_install_exiftool: exiftool = shutil.which(..)
FindExiftool ==
    /\ inst_pc = "which"
    /\ exiftool' = IF ~inst_args.force_install_exiftool /\ exiftool_on_path
                   THEN "PATH" ELSE "None"
    /\ inst_pc' = "exiftool"
    /\ UNCHANGED <<platform, inst_args, venv_dir_exists, venv_python_exists,
                   venv_path_has_space, exiftool_on_path, installed, inst_exit,
                   inst_error, cvars, wvars>>

\* exiftool is not None: the install is skipped
ExiftoolFound ==
    /\ inst_pc = "exiftool"
    /\ exiftool # "None"
    /\ inst_pc' = "pip"
    /\ UNCHANGED <<platform, inst_args, venv_dir_exists, venv_python_exists,
                   venv_path_has_space, exiftool_on_path, exiftool, installed,
                   inst_exit, inst_error, cvars, wvars>>

\* {"win32": install_exiftool_windows}[sys.platform] raises KeyError
ExiftoolNoInstaller ==
    /\ inst_pc = "exiftool"
    /\ exiftool = "None"
    /\ platform # "win32"
    /\ InstRaise("exiftool_unavailable")
    /\ UNCHANGED <<platform, inst_args, venv_dir_exists, venv_python_exists,
                   venv_path_has_space, exiftool_on_path, exiftool, installed,
                   cvars, wvars>>

\* install_exiftool_windows(install_dir, args.exiftool_version)
install_exiftool_windows ==
    /\ inst_pc = "exiftool"
    /\ exiftool = "None"
    /\ platform = "win32"
    /\ installed' = installed \cup {"exiftool.exe", "exiftool_files"}
    /\ inst_pc' = "pip"
    /\ UNCHANGED <<platform, inst_args, venv_dir_exists, venv_python_exists,
                   venv_path_has_space, exiftool_on_path, exiftool, inst_exit,
                   inst_error, cvars, wvars>>

\* install_exiftool_windows raises: the download or the extraction fails
ExiftoolInstallFails ==
    /\ inst_pc = "exiftool"
    /\ exiftool = "None"
    /\ platform = "win32"
    /\ InstRaise("exiftool_unavailable")
    /\ UNCHANGED <<platform, inst_args, venv_dir_exists, venv_python_exists,
                   venv_path_has_space, exiftool_on_path, exiftool, installed,
                   cvars, wvars>>

\* subprocess.run([venv_python_bin, "-m", "pip", "install", ...], check=True)
PipInstall ==
    /\ inst_pc = "pip"
    /\ installed' = installed \cup {"packages"}
    /\ inst_pc' = "shebang"
    /\ UNCHANGED <<platform, inst_args, venv_dir_exists, venv_python_exists,
                   venv_path_has_space, exiftool_on_path, exiftool, inst_exit,
                   inst_error, cvars, wvars>>

\* pip exits non-zero: CalledProcessError
PipInstallFails ==
    /\ inst_pc = "pip"
    /\ InstRaise("pip_failed")
    /\ UNCHANGED <<platform, inst_args, venv_dir_exists, venv_python_exists,
                   venv_path_has_space, exiftool_on_path, exiftool, installed,
                   cvars, wvars>>

\* shebang_linux raises ValueError for a path with a space; shebang_windows
\* quotes the path
ShebangOk == platform = "win32" \/ ~venv_path_has_space

\* python_shebang = ...; the scripts are copied and their first line replaced
InstallScripts ==
    /\ inst_pc = "shebang"
    /\ ShebangOk
    /\ installed' = installed \cup {"thermal-convert.py"}
    /\ inst_pc' = "dirs"
    /\ UNCHANGED <<platform, inst_args, venv_dir_exists, venv_python_exists,
                   venv_path_has_space, exiftool_on_path, exiftool, inst_exit,
                   inst_error, cvars, wvars>>

ShebangFails ==
    /\ inst_pc = "shebang"
    /\ ~ShebangOk
    /\ InstRaise("venv_path_has_space")
    /\ UNCHANGED <<platform, inst_args, venv_dir_exists, venv_python_exists,
                   venv_path_has_space, exiftool_on_path, exiftool, installed,
                   cvars, wvars>>

\* install_input.mkdir(exist_ok=True); install_output.mkdir(exist_ok=True);
\* main returns
MakeDefaultDirs ==
    /\ inst_pc = "dirs"
    /\ installed' = installed \cup {"input", "output"}
    /\ inst_pc' = "exited"
    /\ inst_exit' = 0
    /\ UNCHANGED <<platform, inst_args, venv_dir_exists, venv_python_exists,
                   venv_path_has_space, exiftool_on_path, exiftool, inst_error,
                   cvars, wvars>>

Init == ConvInit /\ WriterIdle /\ InstallIdle

Next ==
    \/ ListInput
    \/ ListInputFails
    \/ MakeOutDir
    \/ MakeOutDirFails
    \/ InitExif
    \/ InitExifFails
    \/ PrintStart
    \/ Decode
    \/ DecodeFails
    \/ Write
    \/ WriteFails
    \/ PrintProgress
    \/ CopyExif
    \/ CopyExifFails
    \/ SkipCopy

Spec == Init /\ [][Next]_vars

WriterNext == WriteCentikelvin \/ WriteCelsius

InitWriter == WriterInit /\ ConvIdle /\ InstallIdle

SpecWriter == InitWriter /\ [][WriterNext]_vars

InitInstall ==
    /\ inst_pc = "venv"
    /\ platform \in Platforms
    /\ inst_args \in [force_install_exiftool : BOOLEAN]
    /\ venv_dir_exists \in BOOLEAN
    /\ venv_python_exists \in (IF venv_dir_exists THEN BOOLEAN ELSE {FALSE})
    /\ venv_path_has_space \in BOOLEAN
    /\ exiftool_on_path \in BOOLEAN
    /\ exiftool = "None"
    /\ installed = {}
    /\ inst_exit = -1
    /\ inst_error = "none"
    /\ ConvIdle
    /\ WriterIdle

InstallNext ==
    \/ VenvFound
    \/ VenvBroken
    \/ VenvCreate
    \/ VenvCreateNoPython
    \/ VenvCreateFails
    \/ FindExiftool
    \/ ExiftoolFound
    \/ ExiftoolNoInstaller
    \/ install_exiftool_windows
    \/ ExiftoolInstallFails
    \/ PipInstall
    \/ PipInstallFails
    \/ InstallScripts
    \/ ShebangFails
    \/ MakeDefaultDirs

SpecInstall == InitInstall /\ [][InstallNext]_vars

(***************************************************************************)
(* Properties.                                                             *)
(***************************************************************************)
\* positions of the calls of one kind
Positions(op) == {q \in 1..Len(calls) : calls[q].op = op}

\* N: the number of regular files in the input directory
NumRegular == Cardinality({k \in 1..Len(dir_entries) : dir_entries[k].is_file})

DotTiff == <<".", "t", "i", "f", "f">>

\* A name's extension starts at its last dot, when that dot is neither the
\* first nor the last character; the stem is what precedes the extension.
ExtensionAt(name, k) ==
    /\ name[k] = "."
    /\ k > 1
    /\ k < Len(name)
    /\ \A m \in (k + 1)..Len(name) : name[m] # "."

StemOf(name) ==
    IF \E k \in 1..Len(name) : ExtensionAt(name, k)
    THEN SubSeq(name, 1, (CHOOSE k \in 1..Len(name) : ExtensionAt(name, k)) - 1)
    ELSE name

\* C1 as stated: a run over N regular files that completes without error
\* has emitted exactly N progress lines.
C1_ExactlyNLines == pc = "done" => Len(stdout) = NumRegular

\* C1 amended: a run over N regular files that completes without error has
\* emitted exactly N + 1 progress lines `Completed Files: k/N`, with the
\* numerators k = 0, 1, .., N in this order and the constant denominator N.
C1_ProgressLines ==
    pc = "done" =>
        /\ Len(stdout) = NumRegular + 1
        /\ \A k \in 1..Len(stdout) :
               stdout[k] = [msg |-> "Completed Files", current |-> k - 1,
                            total |-> NumRegular]

C1_Witness == pc = "done" /\ NumRegular = MaxEntries /\ Len(stdout) > 2

\* the uint16 value of the raster pixel written
Stored == IntPart(px_out.mag)

\* a stored value decodes to within 0.01 degree of the pixel: as hundredths,
\* Stored - 27315 is within 1 of px_c
RoundTrips == Stored - 27315 - px_c \in {-1, 0, 1}

\* C2 as stated: every Celsius value in [-273.15, 382.85], at 0.01 degree
\* resolution, is stored by the centikelvin writer as a value that decodes
\* (v/100 - 273.15) to within 0.01 degree of it.
C2_RoundTripTo38285 ==
    (px_pc = "centikelvin" /\ px_c \in (-27315)..38285) => RoundTrips

\* C2 amended: every Celsius value in [-273.15, 382.20] (382.20 C is 65535
\* centikelvin, the largest value stored), at 0.01 degree resolution, is
\* stored by the centikelvin writer as a value that decodes to within 0.01
\* degree of it.
C2_RoundTripTo38220 ==
    (px_pc = "centikelvin" /\ px_c \in (-27315)..38220) => RoundTrips

\* a pixel in the range whose stored value is one centikelvin short
C2_Witness ==
    /\ px_pc = "centikelvin"
    /\ px_c \in (-27315)..38220
    /\ Stored = px_c + 27314

\* C3: the centikelvin writer stores a uint16 in 0..65535 for every pixel:
\* 0 below -273.15 C, 65535 above 65535 centikelvin, and in between
\* (t + 273.15) * 100 truncated by the cast (the whole number of centikelvin
\* or, when the float product falls just short of it, one less); 100.0 C
\* stores 37315 and -300.0 C stores 0.
C3_ClampedCentikelvin ==
    px_pc = "centikelvin" =>
        /\ px_out.dtype = "uint16"
        /\ ~px_out.neg
        /\ px_out.mag = <<0, 0, 0, Stored>>
        /\ Stored \in 0..65535
        /\ (px_c < -27315 => Stored = 0)
        /\ (px_c + 27315 > 65535 => Stored = 65535)
        /\ (px_c + 27315 \in 0..65535 => Stored \in {px_c + 27315, px_c + 27314} \cap 0..65535)
        /\ (px_c = 10000 => Stored = 37315)
        /\ (px_c = -30000 => Stored = 0)

\* a pixel above the range, saturated
C3_Witness == px_pc = "centikelvin" /\ px_c > 38300 /\ Stored = 65535

\* C4: every regular file of the input directory gets exactly one job (one
\* decode, one writer call) on a completed run and never more, and at most
\* one destination file, named by the source's stem followed by `.tiff`;
\* an entry that is not a regular file gets no job and no destination file.
C4_OneJobPerRegularFile ==
    \A k \in 1..Len(dir_entries) :
        LET e == dir_entries[k]
            dec == {q \in Positions("decode") : calls[q].file = e.name}
            wr == {q \in Positions("write") : calls[q].file = e.name}
            outs == {d \in DOMAIN out_fs : out_fs[d].src = e.name}
        IN  /\ Cardinality(dec) <= 1
            /\ Cardinality(wr) <= 1
            /\ \A q \in wr : calls[q].dest = StemOf(e.name) \o DotTiff
            /\ outs \subseteq {StemOf(e.name) \o DotTiff}
            /\ (~e.is_file => dec = {} /\ wr = {} /\ outs = {})
            /\ (pc = "done" /\ e.is_file => Cardinality(dec) = 1 /\ Cardinality(wr) = 1)

C4_Witness ==
    /\ pc = "done"
    /\ \E k \in 1..Len(dir_entries) : ~dir_entries[k].is_file
    /\ Cardinality(DOMAIN out_fs) >= 2

\* C5: with copy_exif disabled the metadata tool is never resolved and never
\* run, and there is no Exif object.
C5_NoCopierWhenDisabled ==
    ~args.copy_exif =>
        /\ exif = "None"
        /\ Positions("resolve") = {}
        /\ Positions("copy") = {}
        /\ \A d \in DOMAIN out_fs : out_fs[d].exif_from = <<>>

C5_Witness == pc = "done" /\ ~args.copy_exif /\ Cardinality(DOMAIN out_fs) >= 2

\* the step about to be taken is the first failure of a file's decode,
\* write or metadata copy
FileStepFails == failed_at = "none" /\ failed_at' \in {"decode", "write", "copy"}

\* after a failure nothing more is called, printed or written
NothingAfterFailure == failed_at # "none" => UNCHANGED <<calls, stdout, out_fs>>

\* C6 as stated: the run stops at the first failure: after it no call is
\* made, no progress line is emitted, and the failing step leaves every
\* destination file written for an earlier file in place and unchanged.
C6_EarlierOutputsUnchanged ==
    [][ /\ NothingAfterFailure
        /\ FileStepFails =>
               /\ stdout' = stdout
               /\ exit_status' = 1
               /\ \A d \in DOMAIN out_fs :
                      out_fs[d].src # in_files[idx + 1] =>
                          d \in DOMAIN out_fs' /\ out_fs'[d] = out_fs[d] ]_vars

\* C6 amended: the run stops at the first failure: after it no call is made
\* and no progress line is emitted, and the failing step leaves in place and
\* unchanged every destination file written for an earlier file, except the
\* one at the failing file's own destination path (an earlier file of the
\* same stem), which a failed write may have truncated.
C6_StopsAtFirstFailure ==
    [][ /\ NothingAfterFailure
        /\ FileStepFails =>
               /\ stdout' = stdout
               /\ exit_status' = 1
               /\ \A d \in DOMAIN out_fs :
                      d # StemOf(in_files[idx + 1]) \o DotTiff =>
                          d \in DOMAIN out_fs' /\ out_fs'[d] = out_fs[d] ]_vars

\* the third file's write failed after two other destinations were written
C6_Witness ==
    /\ failed_at = "write"
    /\ idx = 2
    /\ Cardinality(DOMAIN out_fs \ {StemOf(in_files[idx + 1]) \o DotTiff}) = 2

\* C7: every setup error of the installer ends the process with a non-zero
\* exit status.
C7_SetupErrorExitsNonZero == inst_error # "none" => inst_exit \notin {-1, 0}

\* C8: with copy_exif enabled the tool is resolved once, as the first call
\* of the run and before any file is decoded, written or copied, and every
\* copy runs the location resolved then; when it cannot be located the run
\* ends there with status 1: nothing decoded, written, copied or printed.
C8_ResolvedOnceUpFront ==
    args.copy_exif =>
        /\ Cardinality(Positions("resolve")) <= 1
        /\ \A q \in 1..Len(calls) :
               calls[q].op \in {"decode", "write", "copy", "print"} =>
                   Positions("resolve") = {1} /\ calls[1].arg # "None"
        /\ \A q \in Positions("copy") : calls[q].arg = calls[1].arg /\ exif = calls[1].arg
        /\ failed_at = "exif" =>
               /\ Len(calls) = 1
               /\ calls[1].op = "resolve"
               /\ DOMAIN out_fs = {}
               /\ stdout = <<>>
               /\ exit_status = 1

C8_Witness ==
    /\ pc = "done"
    /\ args.copy_exif
    /\ Cardinality(Positions("copy")) = MaxEntries

\* the calls of the loop: decode, write, the progress line after a file, copy
LoopCalls ==
    {q \in 1..Len(calls) :
        calls[q].op \in {"decode", "write", "copy"}
        \/ (calls[q].op = "print" /\ calls[q].n >= 1)}

\* the index (from 0) of the file a loop call belongs to
FileIdx(q) == IF calls[q].op = "print" THEN calls[q].n - 1 ELSE calls[q].n

\* a loop call's place in its file's steps
Rank(q) ==
    CASE calls[q].op = "decode" -> 1
      [] calls[q].op = "write" -> 2
      [] calls[q].op = "print" -> 3
      [] calls[q].op = "copy" -> 4

\* C9: per file the steps are decode, write, progress line, then (copy_exif
\* only) the metadata copy from the source to its destination, each directly
\* after the one before; a file's first step directly follows the previous
\* file's last; the progress line with numerator k comes when exactly k
\* rasters have been written and k - 1 metadata copies run.
C9_StepOrder ==
    /\ \A p, q \in LoopCalls :
           p < q => \/ FileIdx(p) < FileIdx(q)
                    \/ FileIdx(p) = FileIdx(q) /\ Rank(p) < Rank(q)
    /\ \A q \in LoopCalls :
           /\ calls[q].op # "print" => calls[q].file = in_files[FileIdx(q) + 1]
           /\ Rank(q) > 1 =>
                  /\ q - 1 \in LoopCalls
                  /\ FileIdx(q - 1) = FileIdx(q)
                  /\ Rank(q - 1) = Rank(q) - 1
           /\ Rank(q) = 1 /\ FileIdx(q) > 0 =>
                  /\ q - 1 \in LoopCalls
                  /\ FileIdx(q - 1) = FileIdx(q) - 1
                  /\ Rank(q - 1) = IF args.copy_exif THEN 4 ELSE 3
           /\ Rank(q) = 4 =>
                  /\ args.copy_exif
                  /\ calls[q].dest = calls[q - 2].dest
           /\ Rank(q) = 3 =>
                  /\ Cardinality({p \in Positions("write") : p < q}) = calls[q].n
                  /\ args.copy_exif =>
                         Cardinality({p \in Positions("copy") : p < q}) = calls[q].n - 1
    /\ pc = "done" =>
           Cardinality(LoopCalls) = Len(in_files) * (IF args.copy_exif THEN 4 ELSE 3)

C9_Witness ==
    /\ pc = "done"
    /\ args.copy_exif
    /\ Len(in_files) = MaxEntries
    /\ Cardinality(LoopCalls) = 4 * MaxEntries

\* the last input file whose destination is d
LastSourceOf(d) ==
    LET ks == {k \in 1..Len(in_files) : StemOf(in_files[k]) \o DotTiff = d}
    IN  in_files[CHOOSE k \in ks : \A m \in ks : m <= k]

\* C10: input files with the same stem are written to the same destination
\* path, the later one over the earlier one; after a run that completes
\* without error there are as many destination files as distinct stems,
\* each holding the raster of the last file of its stem, and the progress
\* lines still count all N files.
C10_SameStemOverwrites ==
    /\ \A p, q \in Positions("write") :
           StemOf(calls[p].file) = StemOf(calls[q].file) => calls[p].dest = calls[q].dest
    /\ pc = "done" =>
           /\ DOMAIN out_fs = {StemOf(in_files[k]) \o DotTiff : k \in 1..Len(in_files)}
           /\ Cardinality(DOMAIN out_fs)
                  = Cardinality({StemOf(in_files[k]) : k \in 1..Len(in_files)})
           /\ \A d \in DOMAIN out_fs : out_fs[d].src = LastSourceOf(d) /\ out_fs[d].complete
           /\ Len(stdout) = NumRegular + 1
           /\ stdout[Len(stdout)].current = NumRegular

\* three files, two of them of the same stem, end as two destination files
C10_Witness ==
    /\ pc = "done"
    /\ Len(in_files) = 3
    /\ Cardinality(DOMAIN out_fs) = 2
====
